---- MODULE Spec2Model ----
(***************************************************************************)
(* Model of src/src/mcp_server_ds/server.py: the ScriptRunner session      *)
(* state (data, df_count, notes), its two operations load_csv and          *)
(* safe_eval, and the handlers call_tool and read_resource that the        *)
(* asyncio event loop runs on one thread.                                  *)
(*                                                                         *)
(* A pandas DataFrame is an object with identity: the store and a script's *)
(* namespace hold references (positive integers) into `heap', which maps   *)
(* each object to its shape <<rows, cols>>.  An Optional argument is a     *)
(* sequence of length 0 (None) or 1 (the value).                           *)
(***************************************************************************)
EXTENDS Integers, Sequences, FiniteSets, TLC

VARIABLES
    data,        \* self.data: dataset name -> DataFrame object
    heap,        \* DataFrame object -> its shape
    df_count,    \* self.df_count
    notes,       \* self.notes
    sys_stdout,  \* sys.stdout: ORIG_STDOUT, or the task whose StringIO it is
    pc,          \* each request's position in its handler
    frame,       \* each running handler's arguments and locals
    load_calls,  \* history: the number of load_csv calls made
    autos,       \* history: the names resolved for the unnamed loads, in order
    work         \* history: the units of work done

vars == <<data, heap, df_count, notes, sys_stdout, pc, frame, load_calls, autos, work>>

\* ------------------------------------------------------------------ bounds
\* Every request started and every script statement run is one unit of work.
MaxWork == 4

Tasks == 1..MaxWork

\* ------------------------------------------------------------------ inputs
None == <<>>
Some(v) == <<v>>

\* df_name arguments a client may send: absent, empty, or a name.
DfNameArgs == {None, Some(""), Some("df_2")}
\* Names a script assigns to.
ScriptNames == {"x", "df_1"}
\* save_to_memory arguments.
SaveArgs == {None, Some(<<"x">>), Some(<<"df_1", "x">>)}
Scripts == {"s"}
Shapes == {<<1, 2>>, <<3, 2>>}
\* Texts a script writes to sys.stdout in one statement.
Chunks == {<<" ">>, <<"a", " ", "b", "\n">>}
NOTES_URI == "data-exploration://notes"
Uris == {NOTES_URI, "data-exploration://other"}
Whitespace == {" ", "\n"}

\* A value bound in a namespace that is not a DataFrame.
NotDF == 0
\* sys.stdout as it is when the process starts.
ORIG_STDOUT == 0

\* --------------------------------------------------------------- functions
\* Python truthiness of an Optional[str] / Optional[List[str]] argument.
Truthy(opt) == opt # None /\ Len(opt[1]) > 0

DfName(n) == "df_" \o ToString(n)

\* Faulty variants of CountAfterLoad: the counter is never advanced; it is
\* advanced only when a name has to be generated.
CountNoIncrement(c, df_name) == c
CountIncrementIfUnnamed(c, df_name) == IF Truthy(df_name) THEN c ELSE c + 1
\* line 168: self.df_count += 1, whatever df_name is
CountAfterLoad(c, df_name) == c + 1

\* Faulty variant of ResolveName: df_name if df_name is not None else ...
ResolveNameUnlessNone(df_name, count) ==
    IF df_name # None THEN df_name[1] ELSE DfName(count)
\* line 169: name = df_name or f"df_{self.df_count}"
ResolveName(df_name, count) == IF Truthy(df_name) THEN df_name[1] ELSE DfName(count)

LoadedMsg(name, shape) ==
    "Loaded CSV into '" \o name \o "' (" \o ToString(shape[1]) \o " rows, "
        \o ToString(shape[2]) \o " cols)"
ExecutingMsg(script) == "Executing script:\n" \o script
SavedMsg(name) == "Saved DataFrame '" \o name \o "' to memory"
OutputMsg(output) == "Script output: " \o output
LoadErrorMsg == "Error loading CSV"
ScriptErrorMsg == "Script error"
UnknownToolMsg == "Unknown tool"
UnknownResourceMsg == "Unknown resource"

RECURSIVE Str(_)
\* StringIO.getvalue(): the characters written, as one string.
Str(cs) == IF cs = <<>> THEN "" ELSE Head(cs) \o Str(Tail(cs))

RECURSIVE LStrip(_)
LStrip(cs) == IF cs # <<>> /\ Head(cs) \in Whitespace THEN LStrip(Tail(cs)) ELSE cs
RECURSIVE RStrip(_)
RStrip(cs) ==
    IF cs # <<>> /\ cs[Len(cs)] \in Whitespace
    THEN RStrip(SubSeq(cs, 1, Len(cs) - 1)) ELSE cs
\* str.strip()
Strip(cs) == RStrip(LStrip(cs))

\* Faulty variant of Output: the text goes unstripped.
OutputUnstripped(cs) == IF cs = <<>> THEN "<no output>" ELSE Str(cs)
\* line 203: output = stdout.getvalue().strip() or "<no output>"
Output(cs) == IF Strip(cs) = <<>> THEN "<no output>" ELSE Str(Strip(cs))

RECURSIVE JoinNoSeparator(_)
\* Faulty variant of Join: "".join(runner.notes)
JoinNoSeparator(ns) == IF ns = <<>> THEN "" ELSE ns[1] \o JoinNoSeparator(Tail(ns))
RECURSIVE Join(_)
\* line 232: "\n".join(runner.notes)
Join(ns) ==
    IF ns = <<>> THEN ""
    ELSE IF Len(ns) = 1 THEN ns[1]
    ELSE ns[1] \o "\n" \o Join(Tail(ns))

\* dict assignment d[k] = v
Put(d, k, v) == (k :> v) @@ d

\* ------------------------------------------------------------------- state
NoReq == [kind |-> "", df_name |-> None, script |-> "", save_to_memory |-> None, uri |-> ""]
State == [data |-> data, heap |-> heap, df_count |-> df_count, notes |-> notes,
          sys_stdout |-> sys_stdout]
NoState == [data |-> <<>>, heap |-> <<>>, df_count |-> 0, notes |-> <<>>,
            sys_stdout |-> ORIG_STDOUT]
\* The locals of one handler invocation; `pre' is the session state at its call.
NoFrame == [req |-> NoReq, pre |-> NoState, name |-> "", local_vars |-> <<>>,
            old_stdout |-> ORIG_STDOUT, stdout |-> <<>>, output |-> "", i |-> 0,
            steps |-> 0, raised |-> "", result |-> ""]

\* lines 162-165: ScriptRunner.__init__
Init ==
    /\ data = <<>>
    /\ heap = <<>>
    /\ df_count = 0
    /\ notes = <<>>
    /\ sys_stdout = ORIG_STDOUT
    /\ pc = [t \in Tasks |-> "new"]
    /\ frame = [t \in Tasks |-> NoFrame]
    /\ load_calls = 0
    /\ autos = <<>>
    /\ work = 0

InFlight(t) == pc[t] \notin {"new", "returned"}

\* Faulty variant of LoopIdle: a handler may start while another is suspended.
LoopIdleAlways == TRUE
\* The event loop starts a handler only when no handler is running: call_tool
\* and read_resource contain no await, so each runs to its return.
LoopIdle == \A t \in Tasks : ~InFlight(t)

\* Requests are numbered in the order the loop starts them.
NextTask(t) == pc[t] = "new" /\ \A u \in Tasks : u < t => pc[u] # "new"
HasWork == work < MaxWork

\* ---------------------------------------------------------------- load_csv
\* lines 292-297 and 167-169: call_tool dispatches to load_csv, which advances
\* the counter and resolves the name before it tries to read.
call_load_csv(t, df_name) ==
    /\ LoopIdle
    /\ NextTask(t)
    /\ HasWork
    /\ df_count' = CountAfterLoad(df_count, df_name)
    /\ frame' = [frame EXCEPT ![t] =
            [NoFrame EXCEPT !.req = [NoReq EXCEPT !.kind = "load_csv", !.df_name = df_name],
                            !.pre = State,
                            !.name = ResolveName(df_name, df_count')]]
    /\ load_calls' = load_calls + 1
    /\ autos' = IF Truthy(df_name) THEN autos ELSE Append(autos, frame'[t].name)
    /\ pc' = [pc EXCEPT ![t] = "load_read"]
    /\ work' = work + 1
    /\ UNCHANGED <<data, heap, notes, sys_stdout>>

\* Faulty variant of StoreLoaded: self.data.setdefault(name, df)
StoreIfAbsent(d, name, df) == IF name \in DOMAIN d THEN d ELSE Put(d, name, df)
\* line 172: self.data[name] = df
StoreLoaded(d, name, df) == Put(d, name, df)

\* Faulty variant of NotesAfterLoadError: self.notes = [msg]
NotesReset(ns, msg) == <<msg>>
\* Faulty variant of NotesAfterLoadError: the error is appended to the notes.
NotesWithLoadError(ns, msg) == Append(ns, msg)
\* lines 176-178: the error goes to the logger and the caller, not to self.notes
NotesAfterLoadError(ns, msg) == ns

\* lines 171-175: pd.read_csv succeeds with a new DataFrame of some shape.
load_csv_ok(t, shape) ==
    /\ pc[t] = "load_read"
    /\ heap' = Append(heap, shape)
    /\ data' = StoreLoaded(data, frame[t].name, Len(heap'))
    /\ notes' = Append(notes, LoadedMsg(frame[t].name, shape))
    /\ frame' = [frame EXCEPT ![t].output = LoadedMsg(frame[t].name, shape),
                              ![t].result = "ok"]
    /\ pc' = [pc EXCEPT ![t] = "Success"]
    /\ UNCHANGED <<df_count, sys_stdout, load_calls, autos, work>>

\* lines 171, 176-178: pd.read_csv raises; load_csv raises McpError.
load_csv_fail(t) ==
    /\ pc[t] = "load_read"
    /\ notes' = NotesAfterLoadError(notes, LoadErrorMsg)
    /\ frame' = [frame EXCEPT ![t].output = LoadErrorMsg, ![t].result = "McpError"]
    /\ pc' = [pc EXCEPT ![t] = "Failed"]
    /\ UNCHANGED <<data, heap, df_count, sys_stdout, load_calls, autos, work>>

\* --------------------------------------------------------------- safe_eval
\* Faulty variant of Snapshot: local_vars = {}
SnapshotEmpty(d) == <<>>
\* line 181: local_vars = {**self.data}, a new dict holding the same objects.
Snapshot(d) == d

\* lines 292, 298-302 and 180-185: call_tool dispatches to safe_eval, which
\* copies the store, redirects sys.stdout to a new StringIO (identified by the
\* task that made it) and logs the script text.
call_run_script(t, script, save_to_memory) ==
    /\ LoopIdle
    /\ NextTask(t)
    /\ HasWork
    /\ frame' = [frame EXCEPT ![t] =
            [NoFrame EXCEPT !.req = [NoReq EXCEPT !.kind = "run_script", !.script = script,
                                                  !.save_to_memory = save_to_memory],
                            !.pre = State,
                            !.local_vars = Snapshot(data),
                            !.old_stdout = sys_stdout]]
    /\ sys_stdout' = t
    /\ notes' = Append(notes, ExecutingMsg(script))
    /\ pc' = [pc EXCEPT ![t] = "exec"]
    /\ work' = work + 1
    /\ UNCHANGED <<data, heap, df_count, load_calls, autos>>

\* One statement of the script runs.
Statement(t) ==
    /\ pc[t] = "exec"
    /\ HasWork
    /\ work' = work + 1
Stepped(t) == [frame EXCEPT ![t].steps = @ + 1]
\* The names a namespace binds to DataFrames.
Frames(ns) == {n \in DOMAIN ns : ns[n] # NotDF}

\* lines 187-197, the script's statements.  n = pd.DataFrame(...): a new object.
script_assign_new(t, n, shape) ==
    /\ Statement(t)
    /\ heap' = Append(heap, shape)
    /\ frame' = [Stepped(t) EXCEPT ![t].local_vars = Put(@, n, Len(heap'))]
    /\ UNCHANGED <<data, df_count, notes, sys_stdout, pc, load_calls, autos>>

\* n = m, where m names a DataFrame: both names hold the same object.
script_assign_alias(t, n, m) ==
    /\ Statement(t)
    /\ m \in Frames(frame[t].local_vars)
    /\ n # m
    /\ frame' = [Stepped(t) EXCEPT ![t].local_vars = Put(@, n, frame[t].local_vars[m])]
    /\ UNCHANGED <<data, heap, df_count, notes, sys_stdout, pc, load_calls, autos>>

\* n = <a value that is not a DataFrame>
script_assign_other(t, n) ==
    /\ Statement(t)
    /\ frame' = [Stepped(t) EXCEPT ![t].local_vars = Put(@, n, NotDF)]
    /\ UNCHANGED <<data, heap, df_count, notes, sys_stdout, pc, load_calls, autos>>

\* An in-place operation on the DataFrame m names (m.drop(..., inplace=True),
\* m["c"] = ...): the object changes, whoever else holds it.
script_mutate(t, m, shape) ==
    /\ Statement(t)
    /\ m \in Frames(frame[t].local_vars)
    /\ heap[frame[t].local_vars[m]] # shape
    /\ heap' = [heap EXCEPT ![frame[t].local_vars[m]] = shape]
    /\ frame' = Stepped(t)
    /\ UNCHANGED <<data, df_count, notes, sys_stdout, pc, load_calls, autos>>

\* print(...): written to whatever sys.stdout is now; the original stream is
\* outside the model.
script_print(t, chunk) ==
    /\ Statement(t)
    /\ frame' = [u \in Tasks |->
            IF u = t THEN
                [frame[u] EXCEPT !.steps = @ + 1,
                                 !.stdout = IF sys_stdout = t THEN @ \o chunk ELSE @]
            ELSE IF u = sys_stdout /\ InFlight(u) THEN
                [frame[u] EXCEPT !.stdout = @ \o chunk]
            ELSE frame[u]]
    /\ UNCHANGED <<data, heap, df_count, notes, sys_stdout, pc, load_calls, autos>>

\* Faulty variant of NotesAfterScriptError: the error is appended to the notes.
NotesWithScriptError(ns, msg) == Append(ns, msg)
\* lines 200-201: the error goes to the logger and the caller, not to self.notes
NotesAfterScriptError(ns, msg) == ns

\* lines 198-201: the script raises an Exception (SyntaxError and NameError
\* included); the handler restores sys.stdout and raises McpError.
script_raise_exception(t) ==
    /\ pc[t] = "exec"
    /\ sys_stdout' = frame[t].old_stdout
    /\ notes' = NotesAfterScriptError(notes, ScriptErrorMsg)
    /\ frame' = [frame EXCEPT ![t].raised = "Exception", ![t].output = ScriptErrorMsg,
                              ![t].result = "McpError"]
    /\ pc' = [pc EXCEPT ![t] = "Failed"]
    /\ UNCHANGED <<data, heap, df_count, load_calls, autos, work>>

\* line 198: `except Exception' does not catch a BaseException that is not an
\* Exception (SystemExit, KeyboardInterrupt, GeneratorExit): it leaves
\* safe_eval with no handler run.
script_raise_base_exception(t) ==
    /\ pc[t] = "exec"
    /\ frame' = [frame EXCEPT ![t].raised = "BaseException", ![t].result = "BaseException"]
    /\ pc' = [pc EXCEPT ![t] = "Failed"]
    /\ UNCHANGED <<data, heap, df_count, notes, sys_stdout, load_calls, autos, work>>

\* lines 202-203: the script ran to its end.
safe_eval_restore(t) ==
    /\ pc[t] = "exec"
    /\ sys_stdout' = frame[t].old_stdout
    /\ frame' = [frame EXCEPT ![t].output = Output(frame[t].stdout), ![t].i = 1]
    /\ pc' = [pc EXCEPT ![t] = "save"]
    /\ UNCHANGED <<data, heap, df_count, notes, load_calls, autos, work>>

\* Faulty variant of SaveNames: the names are visited last to first.
SaveNamesReversed(save_to_memory) ==
    IF Truthy(save_to_memory)
    THEN [k \in 1..Len(save_to_memory[1]) |->
            save_to_memory[1][Len(save_to_memory[1]) + 1 - k]]
    ELSE <<>>
\* line 204-205: the names the loop visits.
SaveNames(save_to_memory) == IF Truthy(save_to_memory) THEN save_to_memory[1] ELSE <<>>
\* Faulty variant of IsFrame: the isinstance test is left out.
IsBound(ns, name) == name \in DOMAIN ns
\* lines 206-207: df = local_vars.get(name); isinstance(df, pd.DataFrame)
IsFrame(ns, name) == name \in DOMAIN ns /\ ns[name] # NotDF

\* lines 205-209, one iteration of the loop.
safe_eval_save(t) ==
    /\ pc[t] = "save"
    /\ frame[t].i <= Len(SaveNames(frame[t].req.save_to_memory))
    /\ LET name == SaveNames(frame[t].req.save_to_memory)[frame[t].i] IN
        IF IsFrame(frame[t].local_vars, name)
        THEN /\ data' = Put(data, name, frame[t].local_vars[name])
             /\ notes' = Append(notes, SavedMsg(name))
        ELSE UNCHANGED <<data, notes>>
    /\ frame' = [frame EXCEPT ![t].i = @ + 1]
    /\ UNCHANGED <<heap, df_count, sys_stdout, pc, load_calls, autos, work>>

\* lines 210-211
safe_eval_output(t) ==
    /\ pc[t] = "save"
    /\ frame[t].i > Len(SaveNames(frame[t].req.save_to_memory))
    /\ notes' = Append(notes, OutputMsg(frame[t].output))
    /\ frame' = [frame EXCEPT ![t].result = "ok"]
    /\ pc' = [pc EXCEPT ![t] = "Success"]
    /\ UNCHANGED <<data, heap, df_count, sys_stdout, load_calls, autos, work>>

\* ------------------------------------------------------- the other handlers
\* lines 229-233
read_resource(t, uri) ==
    /\ LoopIdle
    /\ NextTask(t)
    /\ HasWork
    /\ frame' = [frame EXCEPT ![t] =
            [NoFrame EXCEPT !.req = [NoReq EXCEPT !.kind = "read_resource", !.uri = uri],
                            !.pre = State,
                            !.output = IF uri = NOTES_URI THEN Join(notes)
                                       ELSE UnknownResourceMsg,
                            !.result = IF uri = NOTES_URI THEN "ok" ELSE "ValueError"]]
    /\ pc' = [pc EXCEPT ![t] = IF uri = NOTES_URI THEN "Success" ELSE "Failed"]
    /\ work' = work + 1
    /\ UNCHANGED <<data, heap, df_count, notes, sys_stdout, load_calls, autos>>

\* lines 292, 303: a tool name that is neither of the two.
call_unknown_tool(t) ==
    /\ LoopIdle
    /\ NextTask(t)
    /\ HasWork
    /\ frame' = [frame EXCEPT ![t] =
            [NoFrame EXCEPT !.req = [NoReq EXCEPT !.kind = "unknown_tool"],
                            !.pre = State,
                            !.output = UnknownToolMsg,
                            !.result = "McpError"]]
    /\ pc' = [pc EXCEPT ![t] = "Failed"]
    /\ work' = work + 1
    /\ UNCHANGED <<data, heap, df_count, notes, sys_stdout, load_calls, autos>>

\* The objects the store refers to.
Live == {data[n] : n \in DOMAIN data}
\* What is left of an object nothing refers to.
Freed == <<0, 0>>

\* The handler returns (or its exception leaves it): its namespace and locals
\* are dropped, the objects only they referred to are freed, and the event
\* loop is free for the next request.
Return(t) ==
    /\ pc[t] \in {"Success", "Failed"}
    /\ pc' = [pc EXCEPT ![t] = "returned"]
    /\ frame' = [frame EXCEPT ![t] = NoFrame]
    /\ heap' = IF \A u \in Tasks \ {t} : ~InFlight(u)
               THEN [k \in DOMAIN heap |-> IF k \in Live THEN heap[k] ELSE Freed]
               ELSE heap
    /\ UNCHANGED <<data, df_count, notes, sys_stdout, load_calls, autos, work>>

Next ==
    \E t \in Tasks :
        \/ \E df_name \in DfNameArgs : call_load_csv(t, df_name)
        \/ \E shape \in Shapes : load_csv_ok(t, shape)
        \/ load_csv_fail(t)
        \/ \E script \in Scripts, save \in SaveArgs : call_run_script(t, script, save)
        \/ \E n \in ScriptNames, shape \in Shapes : script_assign_new(t, n, shape)
        \/ \E n \in ScriptNames, m \in DOMAIN frame[t].local_vars : script_assign_alias(t, n, m)
        \/ \E n \in ScriptNames : script_assign_other(t, n)
        \/ \E m \in DOMAIN frame[t].local_vars, shape \in Shapes : script_mutate(t, m, shape)
        \/ \E chunk \in Chunks : script_print(t, chunk)
        \/ script_raise_exception(t)
        \/ script_raise_base_exception(t)
        \/ safe_eval_restore(t)
        \/ safe_eval_save(t)
        \/ safe_eval_output(t)
        \/ \E uri \in Uris : read_resource(t, uri)
        \/ call_unknown_tool(t)
        \/ Return(t)

Spec == Init /\ [][Next]_vars

\* ================================================================== claims
Kind(t) == frame[t].req.kind
Pre(t) == frame[t].pre
\* The log entries appended since handler t was called.
Appended(t) == SubSeq(notes, Len(Pre(t).notes) + 1, Len(notes))
Range(f) == {f[k] : k \in DOMAIN f}
Unnamed(t) == Kind(t) = "load_csv" /\ ~Truthy(frame[t].req.df_name)
RunEnded(t, how) == Kind(t) = "run_script" /\ pc[t] = how
LoadEnded(t, how) == Kind(t) = "load_csv" /\ pc[t] = how
\* The namespace ns binds n to a tabular dataset.
Tabular(ns, n) == n \in DOMAIN ns /\ ns[n] # NotDF

\* C1: the names resolved for the loads made without an explicit name are
\* df_<n> with n >= 1 strictly increasing from one such load to the next, so no
\* generated name is produced twice.
C1_AutoNamesStrictlyIncreasing ==
    /\ \A i \in 1..Len(autos) : \E n \in 1..MaxWork : autos[i] = DfName(n)
    /\ \A i, j \in 1..Len(autos) : \A n, m \in 1..MaxWork :
            (i < j /\ autos[i] = DfName(n) /\ autos[j] = DfName(m)) => n < m
\* An unnamed load, an explicitly named load, then an unnamed load again.
C1_Witness == autos = <<DfName(1), DfName(3)>>

C4_StdoutRestored ==
    /\ \A t \in Tasks :
            (RunEnded(t, "Success") \/ RunEnded(t, "Failed")) =>
                sys_stdout = Pre(t).sys_stdout
    /\ (\A t \in Tasks : ~InFlight(t)) => sys_stdout = ORIG_STDOUT

\* C5: after a successful execution each requested name the namespace binds
\* to a DataFrame is stored under that name, with a `Saved DataFrame' entry;
\* a requested name that is unbound or bound to something else keeps its
\* store entry and gets no entry; so does every name not requested.
C5_WriteBack ==
    \A t \in Tasks :
        RunEnded(t, "Success") =>
            LET ns == frame[t].local_vars
                asked == Range(SaveNames(frame[t].req.save_to_memory))
                saved == {n \in asked : Tabular(ns, n)}
            IN  /\ frame[t].result = "ok"
                /\ DOMAIN data = DOMAIN Pre(t).data \cup saved
                /\ \A n \in saved :
                        /\ data[n] = ns[n]
                        /\ SavedMsg(n) \in Range(Appended(t))
                /\ \A n \in (asked \cup DOMAIN data) \ saved :
                        /\ n \in DOMAIN data => data[n] = Pre(t).data[n]
                        /\ SavedMsg(n) \notin Range(Appended(t))
\* df_1 was in the store and is overwritten with the script's new DataFrame;
\* x, also requested, is bound to a value that is not a DataFrame.
C5_Witness ==
    \E t \in Tasks :
        /\ RunEnded(t, "Success")
        /\ frame[t].req.save_to_memory = Some(<<"df_1", "x">>)
        /\ "df_1" \in DOMAIN Pre(t).data
        /\ data["df_1"] # Pre(t).data["df_1"]
        /\ "x" \in DOMAIN frame[t].local_vars
        /\ frame[t].local_vars["x"] = NotDF

\* C6: after a successful execution every dataset whose name was not
\* requested for write-back is in the store with the content it had before.
C6_UnrequestedDatasetsKeepContent ==
    \A t \in Tasks :
        RunEnded(t, "Success") =>
            \A n \in DOMAIN Pre(t).data \ Range(SaveNames(frame[t].req.save_to_memory)) :
                /\ n \in DOMAIN data
                /\ heap[data[n]] = Pre(t).heap[Pre(t).data[n]]

\* C7: when the script starts, its namespace binds exactly the store's keys,
\* each to the object the store holds.
C7_NamespaceIsStoreAtStart ==
    \A t \in Tasks :
        (pc[t] = "exec" /\ frame[t].steps = 0) => frame[t].local_vars = data
\* A script starts with a loaded dataset and a written-back one in the store.
C7_Witness ==
    \E t \in Tasks :
        /\ pc[t] = "exec" /\ frame[t].steps = 0
        /\ {"df_1", "x"} \subseteq DOMAIN data
        /\ SavedMsg("x") \in Range(notes)

\* C8: a successful load stores the newly read DataFrame under the resolved
\* name, replacing what was there, and leaves every other name's dataset as
\* it was.
C8_LoadOverwritesOnlyItsName ==
    \A t \in Tasks :
        LoadEnded(t, "Success") =>
            LET n == frame[t].name IN
            /\ DOMAIN data = DOMAIN Pre(t).data \cup {n}
            /\ data[n] \notin DOMAIN Pre(t).heap
            /\ frame[t].output = LoadedMsg(n, heap[data[n]])
            /\ \A m \in DOMAIN Pre(t).data \ {n} :
                    /\ data[m] = Pre(t).data[m]
                    /\ heap[data[m]] = Pre(t).heap[Pre(t).data[m]]
\* The name was in the store with another shape, next to another dataset.
C8_Witness ==
    \E t \in Tasks :
        /\ LoadEnded(t, "Success")
        /\ frame[t].name \in DOMAIN Pre(t).data
        /\ heap[data[frame[t].name]] # Pre(t).heap[Pre(t).data[frame[t].name]]
        /\ DOMAIN Pre(t).data # {frame[t].name}

\* C9: a load whose read fails is reported as an error and leaves the dataset
\* mapping and the log as they were at the call.
C9_FailedLoadChangesNoDataNoLog ==
    \A t \in Tasks :
        LoadEnded(t, "Failed") =>
            /\ frame[t].result = "McpError"
            /\ data = Pre(t).data
            /\ notes = Pre(t).notes
\* The failed load had resolved to a name the store holds.
C9_Witness ==
    \E t \in Tasks :
        /\ LoadEnded(t, "Failed")
        /\ frame[t].name \in DOMAIN data
        /\ notes # <<>>

\* C10: at most one handler is between its call and its return, so while a
\* script runs no other request takes a step: the store is what the script's
\* namespace was copied from and the log ends with its script text.
C10_ExecutionIsSerialized ==
    /\ \A t, u \in Tasks : (InFlight(t) /\ InFlight(u)) => t = u
    /\ \A t \in Tasks :
            RunEnded(t, "exec") =>
                /\ data = Pre(t).data
                /\ notes = Append(Pre(t).notes, ExecutingMsg(frame[t].req.script))
\* A script is part-way through while another request could still be made.
C10_Witness ==
    \E t \in Tasks :
        /\ RunEnded(t, "exec") /\ frame[t].steps > 0
        /\ HasWork
        /\ \E u \in Tasks : pc[u] = "new"

Ended(t) == pc[t] \in {"Success", "Failed"}
\* The requested names a successful execution writes back.
Saved(t) == {n \in Range(SaveNames(frame[t].req.save_to_memory)) :
                Tabular(frame[t].local_vars, n)}
\* The positions of entry e in the sequence es.
At(es, e) == {k \in 1..Len(es) : es[k] = e}

\* C11: the log is, call after call, one `Loaded CSV' entry for a successful
\* load, one script-text entry for a run_script call, and for a successful
\* run_script one `Script output' entry and one `Saved DataFrame' entry per
\* write-back performed; a failed load, a log read and an unknown operation
\* add nothing.
C11_LogEntriesPerCall ==
    /\ (\A t \in Tasks : pc[t] = "new") => notes = <<>>
    /\ \A t \in Tasks :
        /\ LoadEnded(t, "Success") =>
                Appended(t) = <<LoadedMsg(frame[t].name, heap[data[frame[t].name]])>>
        /\ LoadEnded(t, "Failed") => Appended(t) = <<>>
        /\ RunEnded(t, "Failed") => Appended(t) = <<ExecutingMsg(frame[t].req.script)>>
        /\ RunEnded(t, "Success") =>
                /\ Len(Appended(t)) = 2 + Cardinality(Saved(t))
                /\ Appended(t)[1] = ExecutingMsg(frame[t].req.script)
                /\ Cardinality(At(Appended(t), OutputMsg(frame[t].output))) = 1
                /\ \A n \in Saved(t) : Cardinality(At(Appended(t), SavedMsg(n))) = 1
        /\ (Ended(t) /\ Kind(t) \in {"read_resource", "unknown_tool"}) =>
                Appended(t) = <<>>
\* A successful run_script with a write-back, after a successful load.
C11_Witness ==
    \E t \in Tasks :
        /\ RunEnded(t, "Success")
        /\ Saved(t) # {}
        /\ \E n \in DOMAIN Pre(t).data :
                LoadedMsg(n, Pre(t).heap[Pre(t).data[n]]) \in Range(Pre(t).notes)

\* The captured text cs without its leading and trailing whitespace is the
\* text between its first and its last character that is not whitespace.
Inner(cs) ==
    LET ink == {k \in 1..Len(cs) : cs[k] \notin Whitespace} IN
    IF ink = {} THEN <<>>
    ELSE SubSeq(cs, CHOOSE k \in ink : \A j \in ink : k <= j,
                    CHOOSE k \in ink : \A j \in ink : j <= k)

\* C12: the result of a successful execution is the captured output without
\* leading and trailing whitespace, or `<no output>' when nothing else is
\* left; the `Script output' entry records the same text.
C12_OutputStrippedOrSentinel ==
    \A t \in Tasks :
        RunEnded(t, "Success") =>
            /\ frame[t].output =
                    IF Inner(frame[t].stdout) = <<>> THEN "<no output>"
                    ELSE Str(Inner(frame[t].stdout))
            /\ OutputMsg(frame[t].output) \in Range(Appended(t))
\* The script printed whitespace, then text with a blank inside and a newline
\* at its end.
C12_Witness ==
    \E t \in Tasks :
        /\ RunEnded(t, "Success")
        /\ frame[t].stdout = <<" ", "a", " ", "b", "\n">>
        /\ frame[t].output = "a b"

RECURSIVE Lines(_)
\* The entries es, each but the last followed by a newline.
Lines(es) ==
    IF es = <<>> THEN ""
    ELSE IF Len(es) = 1 THEN es[1]
    ELSE Lines(SubSeq(es, 1, Len(es) - 1)) \o "\n" \o es[Len(es)]

\* C13: reading the notes resource returns the log entries in append order,
\* joined by newlines, and changes nothing; another address yields an error
\* and changes nothing either.
C13_LogReadIsReadOnly ==
    \A t \in Tasks :
        (Ended(t) /\ Kind(t) = "read_resource") =>
            /\ State = Pre(t)
            /\ IF frame[t].req.uri = NOTES_URI
               THEN pc[t] = "Success" /\ frame[t].output = Lines(notes)
               ELSE pc[t] = "Failed" /\ frame[t].result = "ValueError"
\* The log holds several entries when it is read.
C13_Witness ==
    \E t \in Tasks :
        /\ Kind(t) = "read_resource" /\ pc[t] = "Success"
        /\ Len(notes) >= 3
        /\ data # <<>>

RECURSIVE SavedEntries(_, _)
\* The `Saved DataFrame' entries of the names, in their order, that the
\* namespace ns binds to tabular datasets.
SavedEntries(names, ns) ==
    IF names = <<>> THEN <<>>
    ELSE (IF Tabular(ns, Head(names)) THEN <<SavedMsg(Head(names))>> ELSE <<>>)
            \o SavedEntries(Tail(names), ns)
Asked(t) == IF frame[t].req.save_to_memory = None THEN <<>>
            ELSE frame[t].req.save_to_memory[1]

\* C14, as claimed: a successful execution appends the script text, then the
\* `Script output' entry, and after it the `Saved DataFrame' entries in
\* persist_names order.
C14_OutputEntryBeforeSavedEntries ==
    \A t \in Tasks :
        RunEnded(t, "Success") =>
            Appended(t) = <<ExecutingMsg(frame[t].req.script), OutputMsg(frame[t].output)>>
                            \o SavedEntries(Asked(t), frame[t].local_vars)
\* C14, amended: a successful execution appends the script text, then the
\* `Saved DataFrame' entries in persist_names order, and last the `Script
\* output' entry.
C14_SavedEntriesBeforeOutputEntry ==
    \A t \in Tasks :
        RunEnded(t, "Success") =>
            Appended(t) = <<ExecutingMsg(frame[t].req.script)>>
                            \o SavedEntries(Asked(t), frame[t].local_vars)
                            \o <<OutputMsg(frame[t].output)>>
\* Both requested names were written back.
C14_Witness ==
    \E t \in Tasks :
        /\ RunEnded(t, "Success")
        /\ Asked(t) = <<"df_1", "x">>
        /\ Saved(t) = {"df_1", "x"}

\* C15: a load that fails changes no state at all: the mapping, the log and
\* the name counter are as they were at the call.
C15_FailedLoadChangesNoState ==
    \A t \in Tasks :
        LoadEnded(t, "Failed") => State = Pre(t)

\* C16: every step leaves the log as it was or longer, with the old log as
\* its beginning.
C16_LogAppendOnly ==
    [][Len(notes) <= Len(notes') /\ SubSeq(notes', 1, Len(notes)) = notes]_vars
\* A failed operation follows operations that wrote to the log.
C16_Witness ==
    \E t \in Tasks :
        /\ pc[t] = "Failed" /\ Kind(t) # "run_script"
        /\ Len(notes) >= 3

\* C17: over any operation the store keeps its names; a name is in the store
\* only by a successful load or write-back, which the log records; and a
\* stored dataset is another object or has other content after the operation
\* only if that was a successful load resolved to its name or a successful
\* execution with its name in persist_names.
C17_StoreChangesOnlyByLoadOrWriteBack ==
    /\ \A n \in DOMAIN data :
            \/ SavedMsg(n) \in Range(notes)
            \/ \E shape \in Shapes : LoadedMsg(n, shape) \in Range(notes)
    /\ \A t \in Tasks :
        Ended(t) =>
            /\ DOMAIN Pre(t).data \subseteq DOMAIN data
            /\ \A n \in DOMAIN data :
                    (\/ n \notin DOMAIN Pre(t).data
                     \/ data[n] # Pre(t).data[n]
                     \/ heap[data[n]] # Pre(t).heap[Pre(t).data[n]])
                    => \/ LoadEnded(t, "Success") /\ frame[t].name = n
                       \/ RunEnded(t, "Success") /\ n \in Range(Asked(t))

\* C18: the name generated for an unnamed load is not a key of the store when
\* the load is made.
C18_AutoNameIsFresh ==
    \A t \in Tasks :
        (Unnamed(t) /\ InFlight(t)) => frame[t].name \notin DOMAIN Pre(t).data

\* C19: a load given the empty string as its name resolves to the generated
\* df_<n>; a resolved name is never empty; a non-empty explicit name is used
\* as it is.
C19_EmptyNameIsNoName ==
    \A t \in Tasks :
        (Kind(t) = "load_csv" /\ InFlight(t)) =>
            LET arg == frame[t].req.df_name IN
            /\ frame[t].name # ""
            /\ arg = <<"">> => frame[t].name = DfName(Pre(t).df_count + 1)
            /\ (arg # <<>> /\ arg # <<"">>) => frame[t].name = arg[1]
\* The second load, given the empty name, has stored its dataset as df_2.
C19_Witness ==
    \E t \in Tasks :
        /\ LoadEnded(t, "Success")
        /\ frame[t].req.df_name = <<"">>
        /\ frame[t].name = "df_2"
        /\ "df_2" \in DOMAIN data

====
